---------------------------- MODULE Spec2Model ----------------------------
(***************************************************************************)
(* Model of the blockfish game script (src/unnamed/part_005, the latest   *)
(* revision of main.js): live play against the bot engine, undo, the hint *)
(* engine, and the post-game batch review.                                 *)
(*                                                                         *)
(* The program is single threaded: every handler (a click, a key, a timer, *)
(* one line of one engine) runs to completion, so each handler is one      *)
(* action.  The JavaScript functions are state transformers: an operator   *)
(* takes the record s of all program variables and yields the record after *)
(* the call, so that a handler is the composition of the calls it makes.   *)
(*                                                                         *)
(* The rules engine (chess.js) is abstracted to a static board: a square   *)
(* holds a white piece, a black piece or nothing, a move is legal when the *)
(* game is not over, the source square holds a piece of the side to move   *)
(* and the target is an empty square.  The rules engine's game is the list *)
(* of its moves; the verdict of the rules engine on a new position         *)
(* (ongoing, check, checkmate, stalemate, other draw) is an input, and a   *)
(* FEN string is abstracted to the ply and the verdict of its position.    *)
(***************************************************************************)
EXTENDS Integers, Sequences, FiniteSets, TLC

\* ------------------------------------------------------------------ bounds
MaxPlies == 2
MaxQueue == 1
MaxHintQueue == 2
MaxTimers == 1
MaxGames == 2
MaxMate == 30

\* --------------------------------------------------------- program constants
hintSearchDepth == 10
MateBase == 20000
EloCutoff == 1600
terminalMateThreshold == 15000
mateThreshold == 5000
lostThreshold == 750

\* ------------------------------------------------------------ rules engine
WhiteSquares == {"w1"}
BlackSquares == {"b1"}
EmptySquares == {"x1", "x2"}
Squares == WhiteSquares \cup BlackSquares \cup EmptySquares

\* game.get(square): the colour of the piece on a square, "-" for none
PieceAt(sq) == IF sq \in WhiteSquares THEN "w" ELSE IF sq \in BlackSquares THEN "b" ELSE "-"

\* the verdicts of the rules engine on a position
Ongoing == {"ok", "check"}
Terminal == {"mate", "stale", "draw"}
Verdicts == Ongoing \cup Terminal

\* game.history({verbose: true}): one record per move made; st is the verdict on
\* the position the move led to (san carries '+' for check and '#' for mate)
Turn(g) == IF Len(g) % 2 = 0 THEN "w" ELSE "b"
Verdict(g) == IF Len(g) = 0 THEN "ok" ELSE g[Len(g)].st
in_checkmate(g) == Verdict(g) = "mate"
in_draw(g) == Verdict(g) \in {"stale", "draw"}
in_check(g) == Verdict(g) \in {"check", "mate"}
game_over(g) == Verdict(g) \in Terminal

\* game.fen(): the position, reduced to what the program and the engines read
\* from it: the move counter with the side to move (ply) and whether the side to
\* move has a reply (st)
Fen(g) == [ply |-> Len(g), st |-> Verdict(g)]
FenTurn(fen) == IF fen.ply % 2 = 0 THEN "w" ELSE "b"
NoReplies(fen) == fen.st \in {"mate", "stale"}

\* game.moves({verbose: true})
LegalMoves(g) ==
    IF game_over(g) THEN {}
    ELSE {[from |-> f, to |-> t] : f \in {q \in Squares : PieceAt(q) = Turn(g)}, t \in EmptySquares}

\* game.move({from, to}): TRUE when the rules engine accepts the move
Accepts(g, from, to) == [from |-> from, to |-> to] \in LegalMoves(g)
Played(g, from, to, v) == Append(g, [from |-> from, to |-> to, color |-> Turn(g), st |-> v])

\* game.undo()
Undo(g) == IF Len(g) = 0 THEN g ELSE SubSeq(g, 1, Len(g) - 1)

\* ------------------------------------------------------------ JS arrays
\* arrays are 0-based in the program, sequences 1-based here
UndefNum == 0 - 99999
NullHint == [from |-> "null", to |-> "null"]
UndefHint == [from |-> "undefined", to |-> "undefined"]
Pop(a) == IF Len(a) = 0 THEN a ELSE SubSeq(a, 1, Len(a) - 1)
Defined(a, i) == i >= 0 /\ i < Len(a)
ArrayPut(a, i, v, hole) ==
    IF i < Len(a) THEN [a EXCEPT ![i + 1] = v]
    ELSE a \o [k \in 1..(i - Len(a)) |-> hole] \o <<v>>
SetLast(a, v) == IF Len(a) = 0 THEN a ELSE [a EXCEPT ![Len(a)] = v]

\* ------------------------------------------------------------ difficulty
\* botProfiles: the rating 100*k has the k-th skill, depth and randomization
\* (randomization in percent)
Ratings == {100 * k : k \in 1..30}
ProfileSkills == <<0, 0, 0, 0, 0, 0, 0, 1, 1, 2, 3, 4, 5, 6, 7,
                   8, 9, 10, 11, 12, 13, 14, 15, 16, 17, 18, 19, 20, 20, 20>>
ProfileDepths == <<1, 1, 1, 1, 1, 2, 2, 2, 3, 3, 4, 4, 5, 5, 6,
                   6, 7, 8, 9, 10, 11, 12, 13, 14, 15, 16, 17, 18, 20, 22>>
ProfileRandoms == <<80, 70, 65, 60, 55, 50, 45, 40, 35, 30, 25, 20, 15, 10, 5,
                    0, 0, 0, 0, 0, 0, 0, 0, 0, 0, 0, 0, 0, 0, 0>>
\* a table in which the rating 900 searches one ply less deep than 800
botProfilesShallow900(elo) ==
    [skill |-> ProfileSkills[elo \div 100],
     depth |-> IF elo = 900 THEN 1 ELSE ProfileDepths[elo \div 100],
     random |-> ProfileRandoms[elo \div 100]]
botProfiles(elo) == [skill |-> ProfileSkills[elo \div 100], depth |-> ProfileDepths[elo \div 100],
                     random |-> ProfileRandoms[elo \div 100]]
ProfileRandom(elo) == botProfiles(elo).random
ProfileDepth(elo) == botProfiles(elo).depth

VARIABLES game, playerColor, gameActive, selectedSquare, gettingHint, reviewingGame,
          fenHistory, viewingIndex, evalHistory, currentEval, tempBestEval,
          hintHistory, analysisIndex, analysisCounts, moveJudgements, accuracyList,
          currentElo, botSearchDepth, randomizationFactor,
          botTimers, botQueue, hintQueue,
          gameOverModal, yesNoModal, analysisResult,
          started, reviewLog, last, answered, games,
          probe

programVars ==
        <<game, playerColor, gameActive, selectedSquare, gettingHint, reviewingGame,
          fenHistory, viewingIndex, evalHistory, currentEval, tempBestEval,
          hintHistory, analysisIndex, analysisCounts, moveJudgements, accuracyList,
          currentElo, botSearchDepth, randomizationFactor,
          botTimers, botQueue, hintQueue,
          gameOverModal, yesNoModal, analysisResult,
          started, reviewLog, last, answered, games>>
vars == <<programVars, probe>>

\* probe holds the arguments and the result of one call of the judgement
\* functions, for the properties of the functions alone; the program does not
\* have it.
\* started, reviewLog, last and answered are history variables of the model:
\* a game has been started; the requests of the running review (the ply, whether
\* fenHistory has it, the plies of the game when it was sent); what
\* the handler that just ran did, when the properties speak about it, and for
\* which ply; the request whose bestmove line the handler that just ran received;
\* the games started so far, counted in the specifications that bound them.
Did(op, ply) == [op |-> op, ply |-> ply]
NoOp == Did("-", 0 - 1)
\* A request on the hint channel.  The wire carries the position only; kind,
\* ply, stale (a new game, the menu or a new review came after it) and cancelled
\* (a new game stopped the review it belongs to) are history variables.
UndefinedFen == [ply |-> 0 - 1, st |-> "undefined"]
HintRequest(fen, kind, ply) ==
    [fen |-> fen, kind |-> kind, ply |-> ply, stale |-> FALSE, cancelled |-> FALSE]
NoRequest == HintRequest(UndefinedFen, "none", 0 - 1)
\* The program state as one record (history of the last handler cleared), and
\* its write-back
Cur == [game |-> game, playerColor |-> playerColor, gameActive |-> gameActive,
        selectedSquare |-> selectedSquare, gettingHint |-> gettingHint,
        reviewingGame |-> reviewingGame, fenHistory |-> fenHistory,
        viewingIndex |-> viewingIndex, evalHistory |-> evalHistory,
        currentEval |-> currentEval, tempBestEval |-> tempBestEval,
        hintHistory |-> hintHistory, analysisIndex |-> analysisIndex,
        analysisCounts |-> analysisCounts, moveJudgements |-> moveJudgements,
        accuracyList |-> accuracyList, currentElo |-> currentElo,
        botSearchDepth |-> botSearchDepth, randomizationFactor |-> randomizationFactor,
        botTimers |-> botTimers, botQueue |-> botQueue, hintQueue |-> hintQueue,
        gameOverModal |-> gameOverModal, yesNoModal |-> yesNoModal,
        analysisResult |-> analysisResult, started |-> started, reviewLog |-> reviewLog,
        last |-> NoOp, answered |-> NoRequest, games |-> games]

Becomes(s) ==
    /\ game' = s.game /\ playerColor' = s.playerColor /\ gameActive' = s.gameActive
    /\ selectedSquare' = s.selectedSquare /\ gettingHint' = s.gettingHint
    /\ reviewingGame' = s.reviewingGame /\ fenHistory' = s.fenHistory
    /\ viewingIndex' = s.viewingIndex /\ evalHistory' = s.evalHistory
    /\ currentEval' = s.currentEval /\ tempBestEval' = s.tempBestEval
    /\ hintHistory' = s.hintHistory /\ analysisIndex' = s.analysisIndex
    /\ analysisCounts' = s.analysisCounts /\ moveJudgements' = s.moveJudgements
    /\ accuracyList' = s.accuracyList /\ currentElo' = s.currentElo
    /\ botSearchDepth' = s.botSearchDepth /\ randomizationFactor' = s.randomizationFactor
    /\ botTimers' = s.botTimers /\ botQueue' = s.botQueue /\ hintQueue' = s.hintQueue
    /\ gameOverModal' = s.gameOverModal /\ yesNoModal' = s.yesNoModal
    /\ analysisResult' = s.analysisResult /\ started' = s.started
    /\ reviewLog' = s.reviewLog /\ last' = s.last /\ answered' = s.answered /\ games' = s.games

\* playerColor.charAt(0)
PlayerSide(s) == IF s.playerColor = "white" THEN "w" ELSE "b"

NoCounts == [best |-> 0, excellent |-> 0, good |-> 0, inaccuracy |-> 0, mistake |-> 0, blunder |-> 0]

\* the module-level declarations of the script, after its top-level statements
\* (updateDifficultyCategory() sets the first rating of the first category)
InitProgram ==
    /\ game = <<>> /\ playerColor = "white" /\ gameActive = FALSE
    /\ selectedSquare = "null" /\ gettingHint = FALSE /\ reviewingGame = FALSE
    /\ fenHistory = <<>> /\ viewingIndex = 0 /\ evalHistory = <<0>>
    /\ currentEval = 0 /\ tempBestEval = 0
    /\ hintHistory = <<>> /\ analysisIndex = 0 /\ analysisCounts = NoCounts
    /\ moveJudgements = <<>> /\ accuracyList = <<>>
    /\ currentElo = 100 /\ botSearchDepth = ProfileDepth(100)
    /\ randomizationFactor = ProfileRandom(100)
    /\ botTimers = 0 /\ botQueue = <<>> /\ hintQueue = <<>>
    /\ gameOverModal = FALSE /\ yesNoModal = FALSE /\ analysisResult = FALSE
    /\ started = FALSE /\ reviewLog = <<>> /\ last = NoOp /\ answered = NoRequest /\ games = 0
NoProbe == [kind |-> "none", movePlayed |-> NullHint, bestMove |-> NullHint, prev |-> 0, cur |-> 0,
            color |-> "w", lost |-> 0, type |-> "-"]
Init == InitProgram /\ probe = NoProbe

\* ------------------------------------------------------------ game state
\* openGameOverModal / closeGameOverModal: the modal's display style
openGameOverModal(s) == [s EXCEPT !.gameOverModal = TRUE]
closeGameOverModal(s) == [s EXCEPT !.gameOverModal = FALSE]

\* updateStatus(): ends the game on checkmate or draw and stores the final score
updateStatus(s) ==
    IF ~s.gameActive THEN s
    ELSE IF in_checkmate(s.game) THEN
        LET e == IF Turn(s.game) = "b" THEN MateBase ELSE 0 - MateBase
        IN  [openGameOverModal(s) EXCEPT !.gameActive = FALSE, !.currentEval = e,
                                         !.evalHistory = SetLast(s.evalHistory, e)]
    ELSE IF in_draw(s.game) THEN
        [openGameOverModal(s) EXCEPT !.gameActive = FALSE, !.currentEval = 0,
                                     !.evalHistory = SetLast(s.evalHistory, 0)]
    ELSE s

\* fenSnapshot()
fenSnapshot(s) ==
    [s EXCEPT !.fenHistory = Append(s.fenHistory, Fen(s.game)),
              !.viewingIndex = Len(s.fenHistory),
              !.evalHistory = Append(s.evalHistory, s.currentEval)]

\* makeEngineMove(): 'position fen ...' and 'go depth ...' to the bot engine
makeEngineMove(s) ==
    IF game_over(s.game) THEN s
    ELSE [s EXCEPT !.botQueue = Append(s.botQueue, [fen |-> Fen(s.game), depth |-> s.botSearchDepth])]

\* window.setTimeout(makeEngineMove, 250); the handle is not kept
setTimeoutMakeEngineMove(s) == [s EXCEPT !.botTimers = s.botTimers + 1]

\* window.clearTimeout(botEngineTimeout): botEngineTimeout is never assigned, it
\* stays null and the call clears nothing
clearBotEngineTimeout(s) == s

\* the requests in flight on the hint channel when a pipeline epoch ends
\* (history variable of the model: the program keeps no such mark)
Superseded(q, cancels) ==
    [k \in 1..Len(q) |-> [q[k] EXCEPT !.stale = TRUE, !.cancelled = @ \/ cancels]]

\* startNewGame() that keeps the evaluations of the game before
startNewGameKeepEval(s, color) ==
    IF s.gameActive THEN s
    ELSE LET a == [closeGameOverModal(s) EXCEPT !.reviewingGame = FALSE, !.moveJudgements = <<>>]
             b == [clearBotEngineTimeout(a) EXCEPT !.game = <<>>]
             c == [b EXCEPT !.fenHistory = <<Fen(b.game)>>, !.viewingIndex = 0,
                            !.gameActive = TRUE, !.playerColor = color,
                            !.started = TRUE,
                            !.hintQueue = Superseded(b.hintQueue, s.reviewingGame)]
             d == updateStatus(c)
         IN  IF color = "black" THEN setTimeoutMakeEngineMove(d) ELSE d

\* startNewGame(); color is the checked radio button
startNewGame(s, color) ==
    IF s.gameActive THEN s
    ELSE LET a == [closeGameOverModal(s) EXCEPT !.reviewingGame = FALSE, !.moveJudgements = <<>>]
             b == [clearBotEngineTimeout(a) EXCEPT !.game = <<>>]
             c == [b EXCEPT !.fenHistory = <<Fen(b.game)>>, !.viewingIndex = 0,
                            !.evalHistory = <<0>>, !.currentEval = 0,
                            !.gameActive = TRUE, !.playerColor = color,
                            !.started = TRUE,
                            !.hintQueue = Superseded(b.hintQueue, s.reviewingGame)]
             d == updateStatus(c)
         IN  IF color = "black" THEN setTimeoutMakeEngineMove(d) ELSE d

\* exitToMenu()
exitToMenu(s) ==
    LET a == [clearBotEngineTimeout(closeGameOverModal(s)) EXCEPT
                  !.gameActive = FALSE, !.reviewingGame = FALSE, !.game = <<>>]
        b == [a EXCEPT !.fenHistory = <<Fen(a.game)>>, !.viewingIndex = 0,
                       !.evalHistory = <<0>>, !.currentEval = 0,
                       !.hintQueue = Superseded(a.hintQueue, FALSE)]
    IN  updateStatus(b)

\* undoMove() that forgets the second evalHistory.pop()
undoMoveOnePop(s) ==
    IF ~s.gameActive \/ Len(s.game) < 2 \/ Turn(s.game) # PlayerSide(s) THEN s
    ELSE LET a == [s EXCEPT !.game = Undo(Undo(s.game)),
                            !.fenHistory = Pop(Pop(s.fenHistory)),
                            !.evalHistory = Pop(s.evalHistory)]
             b == [a EXCEPT !.currentEval = a.evalHistory[Len(a.evalHistory)],
                            !.viewingIndex = Len(a.fenHistory) - 1]
         IN  [updateStatus(b) EXCEPT !.selectedSquare = "null", !.last = Did("undo", 0 - 1)]

\* undoMove() that leaves the viewing index where it was
undoMoveKeepView(s) ==
    IF ~s.gameActive \/ Len(s.game) < 2 \/ Turn(s.game) # PlayerSide(s) THEN s
    ELSE LET a == [s EXCEPT !.game = Undo(Undo(s.game)),
                            !.fenHistory = Pop(Pop(s.fenHistory)),
                            !.evalHistory = Pop(Pop(s.evalHistory))]
             b == [a EXCEPT !.currentEval = a.evalHistory[Len(a.evalHistory)]]
         IN  [updateStatus(b) EXCEPT !.selectedSquare = "null", !.last = Did("undo", 0 - 1)]

\* undoMove() without the test of the number of moves made
undoMoveNoCount(s) ==
    IF ~s.gameActive \/ Turn(s.game) # PlayerSide(s) THEN s
    ELSE LET a == [s EXCEPT !.game = Undo(Undo(s.game)),
                            !.fenHistory = Pop(Pop(s.fenHistory)),
                            !.evalHistory = Pop(Pop(s.evalHistory))]
             b == [a EXCEPT !.currentEval = IF Len(a.evalHistory) > 0
                                            THEN a.evalHistory[Len(a.evalHistory)] ELSE 0]
             c == [b EXCEPT !.viewingIndex = Len(b.fenHistory) - 1]
         IN  [updateStatus(c) EXCEPT !.selectedSquare = "null", !.last = Did("undo", 0 - 1)]

\* undoMove()
undoMove(s) ==
    IF ~s.gameActive THEN s
    ELSE IF Len(s.game) < 2 THEN s
    ELSE IF Turn(s.game) # PlayerSide(s) THEN s
    ELSE LET a == [s EXCEPT !.game = Undo(Undo(s.game)),
                            !.fenHistory = Pop(Pop(s.fenHistory)),
                            !.evalHistory = Pop(Pop(s.evalHistory))]
             b == [a EXCEPT !.currentEval = IF Len(a.evalHistory) > 0
                                            THEN a.evalHistory[Len(a.evalHistory)] ELSE 0]
             c == [b EXCEPT !.viewingIndex = Len(b.fenHistory) - 1]
         IN  [updateStatus(c) EXCEPT !.selectedSquare = "null", !.last = Did("undo", 0 - 1)]

\* ------------------------------------------------------------ player interaction
\* the part of handleSquareClickInteractions and onDrop after an accepted move
\* (fenSnapshot, updateStatus, the 250 ms timer of makeEngineMove)
AfterHumanMove(s) ==
    setTimeoutMakeEngineMove([updateStatus(fenSnapshot(s)) EXCEPT !.selectedSquare = "null"])

\* handleSquareClickInteractions(square); v is the verdict on the new position
handleSquareClickInteractions(s, square, v) ==
    IF ~s.gameActive THEN s
    ELSE IF s.selectedSquare = "null" THEN
        IF PieceAt(square) = "-" \/ PieceAt(square) # Turn(s.game) THEN s
        ELSE [s EXCEPT !.selectedSquare = square]
    ELSE IF square = s.selectedSquare THEN [s EXCEPT !.selectedSquare = "null"]
    ELSE IF PieceAt(square) = Turn(s.game) THEN [s EXCEPT !.selectedSquare = square]
    ELSE IF ~Accepts(s.game, s.selectedSquare, square) THEN [s EXCEPT !.selectedSquare = "null"]
    ELSE AfterHumanMove([s EXCEPT !.game = Played(s.game, s.selectedSquare, square, v)])

\* the click that is handled by making a move (scenario 2C/2D, legal)
ClickMoves(s, square) ==
    /\ s.gameActive /\ s.selectedSquare # "null" /\ square # s.selectedSquare
    /\ PieceAt(square) # Turn(s.game) /\ Accepts(s.game, s.selectedSquare, square)
\* the drop that is handled by making a move
DropMoves(s, source, target) ==
    IF source = target THEN ClickMoves(s, source) ELSE Accepts(s.game, source, target)

\* onDragStart(source, piece): TRUE when the drag may start
DragAllowed(s, source) ==
    /\ PieceAt(source) # "-"
    /\ s.gameActive
    /\ ~(s.viewingIndex < Len(s.fenHistory) - 1)
    /\ ~game_over(s.game)
    /\ PieceAt(source) = PlayerSide(s)
onDragStart(s, source) == [s EXCEPT !.selectedSquare = "null"]

\* onDrop(source, target)
onDrop(s, source, target, v) ==
    IF source = target THEN handleSquareClickInteractions(s, source, v)
    ELSE IF ~Accepts(s.game, source, target) THEN [s EXCEPT !.selectedSquare = "null"]
    ELSE AfterHumanMove([s EXCEPT !.game = Played(s.game, source, target, v)])

\* ------------------------------------------------------------ engine lines
\* the mate encoding with the distance added to the base
MateScoreFarther(n) == IF n > 0 THEN MateBase + n ELSE (0 - MateBase) - n
\* 'score mate N' as a centipawn value (both engine handlers)
MateScore(n) == IF n > 0 THEN MateBase - n ELSE (0 - MateBase) - n
\* the score of an 'info ... score ...' line before perspective correction
LineScore(line) ==
    IF line.kind = "mate" THEN MateScore(line.val)
    ELSE IF line.kind = "cp" THEN line.val
    ELSE 0
\* a test that takes every engine line for a score line
IsScoreLineAnyLine(line) == line.kind \in {"mate", "cp", "other"}
\* line.startsWith('info') && line.includes('score')
IsScoreLine(line) == line.kind \in {"mate", "cp"}

\* the moves an engine can answer for a position: '(none)' when the side to move
\* has no move, else a move of the side to move
NoneMove == [from |-> "(n", to |-> "on"]
EngineMoves(fen) ==
    IF NoReplies(fen) THEN {NoneMove}
    ELSE {[from |-> f, to |-> t] : f \in {q \in Squares : PieceAt(q) = FenTurn(fen)}, t \in EmptySquares}

\* ------------------------------------------------------------ bot engine
\* botEngine.onmessage, the 'info ... score' part
botEngineInfo(s, line) ==
    IF ~IsScoreLine(line) THEN s
    ELSE LET score == IF Turn(s.game) = "b" THEN 0 - LineScore(line) ELSE LineScore(line)
         IN  [s EXCEPT !.currentEval = score, !.evalHistory = SetLast(s.evalHistory, score)]

\* botEngineBestmove with a weakener that ignores the rating and the
\* randomization factor of the profile
botEngineBestmoveAnyElo(s, bm, lucky, rnd, v) ==
    LET substitute == lucky /\ LegalMoves(s.game) # {}
        m == IF substitute THEN rnd ELSE bm
        accepted == Accepts(s.game, m.from, m.to)
        a == IF accepted THEN [s EXCEPT !.game = Played(s.game, m.from, m.to, v)] ELSE s
        throws == ~accepted /\ ~game_over(a.game) /\ ~in_check(a.game)
    IN  IF throws THEN a ELSE updateStatus(fenSnapshot(a))

\* botEngine.onmessage, the 'bestmove' part.  bm is the engine's move, lucky the
\* outcome of Math.random() < randomizationFactor, rnd the random legal move,
\* v the verdict on the new position.  playMoveSound(null) throws unless the
\* game is over or the side to move is in check, and ends the handler.
botEngineBestmove(s, bm, lucky, rnd, v) ==
    LET substitute == /\ s.currentElo < EloCutoff
                      /\ lucky /\ s.randomizationFactor > 0
                      /\ LegalMoves(s.game) # {}
        m == IF substitute THEN rnd ELSE bm
        accepted == Accepts(s.game, m.from, m.to)
        a == IF accepted THEN [s EXCEPT !.game = Played(s.game, m.from, m.to, v)] ELSE s
        throws == ~accepted /\ ~game_over(a.game) /\ ~in_check(a.game)
    IN  IF throws THEN a ELSE updateStatus(fenSnapshot(a))

\* ------------------------------------------------------------ resignation
resignGame(s) == [s EXCEPT !.yesNoModal = TRUE]
cancelResignation(s) == [s EXCEPT !.yesNoModal = FALSE]
confirmResignation(s) ==
    openGameOverModal([clearBotEngineTimeout(s) EXCEPT !.yesNoModal = FALSE, !.gameActive = FALSE])

\* ------------------------------------------------------------ navigation
\* navigationUpdate() changes the page only, but it throws on move.san when no
\* move leads to the viewed ply (getPreviousMove() is undefined)
NavigationThrows(s) == s.viewingIndex # 0 /\ ~Defined(s.game, s.viewingIndex - 1)
navigateBack(s) == IF s.viewingIndex > 0 THEN [s EXCEPT !.viewingIndex = s.viewingIndex - 1] ELSE s
navigateForward(s) ==
    IF s.viewingIndex < Len(s.fenHistory) - 1 THEN [s EXCEPT !.viewingIndex = s.viewingIndex + 1] ELSE s
navigateFirst(s) == [s EXCEPT !.viewingIndex = 0]
navigateLast(s) == [s EXCEPT !.viewingIndex = Len(s.fenHistory) - 1]

\* ------------------------------------------------------------ difficulty slider
\* eloSliderChange(): updateEloValue and updateEngineSettings
eloSliderChange(s, elo) ==
    [s EXCEPT !.currentElo = elo, !.botSearchDepth = ProfileDepth(elo),
              !.randomizationFactor = ProfileRandom(elo)]

\* ------------------------------------------------------------ evaluation
Abs(x) == IF x < 0 THEN 0 - x ELSE x
\* The numbers of calculateEvaluation are floating point numbers: every
\* operation rounds its result to the nearest number of the format.  The
\* model keeps that with a decimal format of five significant digits in
\* place of the binary one of 53 bits: a number is m * 10^e with
\* 10000 <= m <= 99999, or zero.
Pow10(n) == IF n = 0 THEN 1 ELSE IF n = 1 THEN 10 ELSE IF n = 2 THEN 100 ELSE IF n = 3 THEN 1000
            ELSE IF n = 4 THEN 10000 ELSE 100000
NumDigits(n) ==
    IF n < 10 THEN 1 ELSE IF n < 100 THEN 2 ELSE IF n < 1000 THEN 3 ELSE IF n < 10000 THEN 4
    ELSE IF n < 100000 THEN 5 ELSE IF n < 1000000 THEN 6 ELSE IF n < 10000000 THEN 7
    ELSE IF n < 100000000 THEN 8 ELSE IF n < 1000000000 THEN 9 ELSE 10
\* n * 10^e rounded to the format
FNorm(n, e) ==
    IF n = 0 THEN [m |-> 0, e |-> 0]
    ELSE LET k == NumDigits(n) - 5
         IN  IF k > 0
             THEN LET m == (2 * n + Pow10(k)) \div (2 * Pow10(k))
                  IN  IF m = 100000 THEN [m |-> 10000, e |-> e + k + 1] ELSE [m |-> m, e |-> e + k]
             ELSE [m |-> n * Pow10(0 - k), e |-> e + k]
FOne == [m |-> 10000, e |-> 0 - 4]
\* a + b, rounded (a and b are not negative)
FAdd(a, b) ==
    IF a.m = 0 THEN b ELSE IF b.m = 0 THEN a
    ELSE LET hi == IF a.e >= b.e THEN a ELSE b
             lo == IF a.e >= b.e THEN b ELSE a
             d == hi.e - lo.e
         IN  IF d >= 6 THEN hi
             ELSE IF d = 5 THEN FNorm(hi.m + (IF lo.m >= 50000 THEN 1 ELSE 0), hi.e)
             ELSE FNorm(hi.m * Pow10(d) + lo.m, lo.e)
\* 1 / b, rounded (b is positive)
FRecip(b) == FNorm((2000000000 + b.m) \div (2 * b.m), (0 - 9) - b.e)
FTimes100(a) == IF a.m = 0 THEN a ELSE [a EXCEPT !.e = @ + 2]
FLeq(a, b) == a.m = 0 \/ (b.m # 0 /\ (a.e < b.e \/ (a.e = b.e /\ a.m <= b.m)))
\* Math.pow(10, -sensitivityFactor * centipawnAdvantage) with
\* sensitivityFactor = 0.004: 10^(-cp/250).  With |cp| = 250 q + r the table
\* holds 10^(r/250) for r = 0, 50, 100, 150, 200, so the value is the rounded power
\* for scores that are multiples of 50 (r is taken down to one otherwise).
Pow10Frac == <<10000, 15849, 25119, 39811, 63096>>
FPow10(cp) ==
    LET q == Abs(cp) \div 250
        r == (Abs(cp) % 250) \div 50
    IN  IF cp <= 0 THEN [m |-> Pow10Frac[r + 1], e |-> q - 4]
        ELSE IF r = 0 THEN [m |-> 10000, e |-> (0 - 4) - q]
        ELSE [m |-> Pow10Frac[(5 - r) + 1], e |-> (0 - 5) - q]
\* let winChance = 1 / (1 + Math.pow(10, -sensitivityFactor * centipawnAdvantage))
winChance(centipawnAdvantage) == FRecip(FAdd(FOne, FPow10(centipawnAdvantage)))
\* winChance with the sign of the exponent lost
winPctNoMinus(centipawnAdvantage) == FTimes100(winChance(0 - centipawnAdvantage))
\* return winChance * 100: the value calculateEvaluation returns
winPct(centipawnAdvantage) == FTimes100(winChance(centipawnAdvantage))
\* a percentage in thousandths of a percent, to the nearest
Thousandths(a) ==
    LET k == a.e + 3
    IN  IF a.m = 0 \/ k <= 0 - 6 THEN 0
        ELSE IF k >= 0 THEN a.m * Pow10(k)
        ELSE (2 * a.m + Pow10(0 - k)) \div (2 * Pow10(0 - k))
\* calculateEvaluation(cp) at the resolution the judgement is modelled at,
\* thousandths of a percent.  NaN (an undefined score) is UndefNum.
calculateEvaluation(cp) ==
    IF cp = UndefNum THEN UndefNum ELSE Thousandths(winPct(cp))


\* the buckets with exclusive upper bounds
JudgementBucketStrict(lostAdvantage) ==
    IF lostAdvantage < 2000 THEN "excellent"
    ELSE IF lostAdvantage < 5000 THEN "good"
    ELSE IF lostAdvantage < 10000 THEN "inaccuracy"
    ELSE IF lostAdvantage < 20000 THEN "mistake"
    ELSE "blunder"

\* the judgement of determineMoveJudgement for a loss of winning chance (in
\* thousandths of a percent)
JudgementBucket(lostAdvantage) ==
    IF lostAdvantage <= 2000 THEN "excellent"
    ELSE IF lostAdvantage <= 5000 THEN "good"
    ELSE IF lostAdvantage <= 10000 THEN "inaccuracy"
    ELSE IF lostAdvantage <= 20000 THEN "mistake"
    ELSE "blunder"

\* determineMoveJudgement without the blunder check
determineMoveJudgementNoOverride(movePlayed, bestMove, previousEvaluation, currentEvaluation, turnColor) ==
    IF bestMove = NullHint THEN
        IF currentEvaluation # UndefNum /\ Abs(currentEvaluation) > terminalMateThreshold
        THEN "best" ELSE "good"
    ELSE IF movePlayed.from = bestMove.from /\ movePlayed.to = bestMove.to THEN "best"
    ELSE IF currentEvaluation = UndefNum \/ previousEvaluation = UndefNum THEN "blunder"
    ELSE JudgementBucket(IF turnColor = "w"
                         THEN calculateEvaluation(previousEvaluation) - calculateEvaluation(currentEvaluation)
                         ELSE calculateEvaluation(currentEvaluation) - calculateEvaluation(previousEvaluation))

\* determineMoveJudgement(movePlayed, bestMove, previousEvaluation, currentEvaluation,
\* turnColor): the judgement text.  Every comparison with NaN is false.
determineMoveJudgement(movePlayed, bestMove, previousEvaluation, currentEvaluation, turnColor) ==
    IF bestMove = NullHint THEN
        IF currentEvaluation # UndefNum /\ Abs(currentEvaluation) > terminalMateThreshold
        THEN "best" ELSE "good"
    ELSE IF movePlayed.from = bestMove.from /\ movePlayed.to = bestMove.to THEN "best"
    ELSE LET cur == currentEvaluation
             prev == previousEvaluation
             curNum == cur # UndefNum
             prevNum == prev # UndefNum
             isMateAgainstWhite == curNum /\ cur <= 0 - mateThreshold
             isMateAgainstBlack == curNum /\ cur >= mateThreshold
             wasMateAgainstWhite == prevNum /\ prev <= 0 - mateThreshold
             wasMateAgainstBlack == prevNum /\ prev >= mateThreshold
             whiteWasLost == prevNum /\ prev < 0 - lostThreshold
             blackWasLost == prevNum /\ prev > lostThreshold
             positionBlundered ==
                 IF turnColor = "w"
                 THEN isMateAgainstWhite /\ ~wasMateAgainstWhite /\ ~whiteWasLost
                 ELSE isMateAgainstBlack /\ ~wasMateAgainstBlack /\ ~blackWasLost
             previousWinningChance == calculateEvaluation(prev)
             currentWinningChance == calculateEvaluation(cur)
             lostAdvantage == IF turnColor = "w"
                              THEN previousWinningChance - currentWinningChance
                              ELSE currentWinningChance - previousWinningChance
         IN  IF positionBlundered THEN "blunder"
             ELSE IF ~curNum \/ ~prevNum THEN "blunder"
             ELSE JudgementBucket(lostAdvantage)

\* the accuracy sample without the cap at 100
AccuracySampleNoCap(prevEval, currEval, color) ==
    IF prevEval = UndefNum \/ currEval = UndefNum THEN UndefNum
    ELSE LET b == calculateEvaluation(prevEval)
             p == calculateEvaluation(currEval)
             bestWinChance == IF color = "b" THEN 100000 - b ELSE b
             playedWinChance == IF color = "b" THEN 100000 - p ELSE p
         IN  100000 - (bestWinChance - playedWinChance)

\* the accuracy sample of hintEngine.onmessage: 100 - (best - played) from the
\* mover's side, capped at 100, in thousandths of a percent
AccuracySample(prevEval, currEval, color) ==
    IF prevEval = UndefNum \/ currEval = UndefNum THEN UndefNum
    ELSE LET b == calculateEvaluation(prevEval)
             p == calculateEvaluation(currEval)
             bestWinChance == IF color = "b" THEN 100000 - b ELSE b
             playedWinChance == IF color = "b" THEN 100000 - p ELSE p
             accuracy == 100000 - (bestWinChance - playedWinChance)
         IN  IF accuracy > 100000 THEN 100000 ELSE accuracy

\* ------------------------------------------------------------ game analysis
NumAt(a, i) == IF Defined(a, i) THEN a[i + 1] ELSE UndefNum
HintAt(a, i) == IF Defined(a, i) THEN a[i + 1] ELSE UndefHint
Bump(counts, type) == [counts EXCEPT ![type] = counts[type] + 1]

\* navigationUpdate(), the judgement label: it is shown while reviewing for
\* the move into the viewed ply when the hint of the ply before is stored
\* (the function throws before that when no move leads to the viewed ply)
ShowsJudgement(s) ==
    /\ s.reviewingGame /\ s.viewingIndex > 0 /\ ~NavigationThrows(s)
    /\ HintAt(s.hintHistory, s.viewingIndex - 1) \notin {NullHint, UndefHint}
judgementLabel(s) ==
    LET moveIndex == s.viewingIndex - 1
        previousMove == s.game[s.viewingIndex]
    IN  determineMoveJudgement(previousMove, HintAt(s.hintHistory, moveIndex),
                               NumAt(s.evalHistory, moveIndex), NumAt(s.evalHistory, moveIndex + 1),
                               previousMove.color)

\* the summary of triggerMoveAnalysis(): the entries of accuracyList that are
\* counted as the player's (entry i belongs to White when i is even), as the
\* plies they are counted for, and the average shown, Math.round of the mean
\* in percent
IsPlayerSample(s, i) ==
    LET isWhiteMove == i % 2 = 0
    IN  (isWhiteMove /\ s.playerColor = "white") \/ (~isWhiteMove /\ s.playerColor = "black")
CountedPlies(s) == {i + 1 : i \in {k \in 0..(Len(s.accuracyList) - 1) : IsPlayerSample(s, k)}}
RECURSIVE SumOver(_, _)
SumOver(a, plies) ==
    IF plies = {} THEN 0
    ELSE LET j == CHOOSE x \in plies : TRUE IN a[j] + SumOver(a, plies \ {j})
averageAccuracy(s) ==
    LET myMoveCount == Cardinality(CountedPlies(s))
        totalAccuracy == SumOver(s.accuracyList, CountedPlies(s))
    IN  IF myMoveCount > 0 THEN (2 * totalAccuracy + 1000 * myMoveCount) \div (2000 * myMoveCount)
        ELSE 0

\* the summary branch of triggerMoveAnalysis(): the result panel is shown
\* (the average accuracy and the badges are page text)
SummaryReached(s) == s.analysisIndex >= Len(s.game) + 1

\* triggerMoveAnalysis()
triggerMoveAnalysis(s) ==
    LET a == [s EXCEPT !.tempBestEval = 0]
    IN  IF SummaryReached(a) THEN [a EXCEPT !.analysisResult = TRUE]
        ELSE LET known == Defined(a.fenHistory, a.analysisIndex)
                 fen == IF known THEN a.fenHistory[a.analysisIndex + 1] ELSE UndefinedFen
             IN  [a EXCEPT !.hintQueue = Append(a.hintQueue, HintRequest(fen, "review", a.analysisIndex)),
                           !.reviewLog = Append(a.reviewLog, [ply |-> a.analysisIndex, known |-> known,
                                                       plies |-> Len(a.game)])]

\* analyzeGame()
analyzeGame(s) == triggerMoveAnalysis([s EXCEPT !.hintHistory = <<>>, !.analysisIndex = 0])

\* reviewGame()
reviewGame(s) ==
    LET a == navigateFirst(closeGameOverModal([s EXCEPT !.reviewingGame = TRUE]))
        b == [a EXCEPT !.analysisCounts = NoCounts, !.moveJudgements = <<>>,
                       !.accuracyList = <<>>, !.analysisResult = FALSE,
                       !.hintQueue = Superseded(a.hintQueue, FALSE), !.reviewLog = <<>>]
    IN  analyzeGame(b)

\* getHint()
getHint(s) ==
    IF ~s.gameActive THEN s
    ELSE IF Turn(s.game) # PlayerSide(s) THEN s
    ELSE IF s.viewingIndex # Len(s.fenHistory) - 1 THEN s
    ELSE [s EXCEPT !.gettingHint = TRUE,
                   !.hintQueue = Append(s.hintQueue, HintRequest(Fen(s.game), "hint", 0 - 1))]

\* hintEngine.onmessage, the 'info ... score' part
hintEngineInfo(s, line) ==
    IF IsScoreLine(line) THEN [s EXCEPT !.tempBestEval = LineScore(line)] ELSE s

\* hintEngine.onmessage, 'bestmove (none)' while reviewing.  A TypeError
\* (prevMove is undefined) ends the handler where it is raised.
hintEngineNone(s) ==
    LET i == s.analysisIndex
        a == [s EXCEPT !.hintHistory = ArrayPut(s.hintHistory, i, NullHint, UndefHint),
                       !.last = Did("storedNone", i)]
    IN  IF ~Defined(a.game, i - 1) THEN a
        ELSE LET prevMove == a.game[i]
                 type == determineMoveJudgement(prevMove, NullHint, NumAt(a.evalHistory, i - 1),
                                                NumAt(a.evalHistory, i), prevMove.color)
                 b == [a EXCEPT !.analysisCounts = IF prevMove.color = PlayerSide(a)
                                                   THEN Bump(a.analysisCounts, type)
                                                   ELSE a.analysisCounts,
                                !.moveJudgements = Append(a.moveJudgements, [index |-> i, type |-> type]),
                                !.analysisIndex = i + 1]
             IN  triggerMoveAnalysis([b EXCEPT !.last = Did("reviewedNone", i)])

\* hintEngine.onmessage, 'bestmove <move>' while reviewing.  The handler ends
\* where a TypeError is raised: fenHistory[analysisIndex] undefined, the played
\* move undefined, the previous best move undefined, or inside navigationUpdate().
hintEngineReview(s, bm) ==
    LET i == s.analysisIndex
        a == [s EXCEPT !.hintHistory = ArrayPut(s.hintHistory, i, bm, UndefHint),
                       !.last = Did("storedHint", i)]
    IN  IF ~Defined(a.fenHistory, i) THEN a
        ELSE
        LET score == IF FenTurn(a.fenHistory[i + 1]) = "b" THEN 0 - a.tempBestEval ELSE a.tempBestEval
            b == [a EXCEPT !.evalHistory = ArrayPut(a.evalHistory, i, score, UndefNum),
                           !.last = Did("stored", i)]
            movePlayed == b.game[i]
            prevEval == NumAt(b.evalHistory, i - 1)
            currEval == NumAt(b.evalHistory, i)
            prevBestMove == HintAt(b.hintHistory, i - 1)
            c == [b EXCEPT !.accuracyList = Append(b.accuracyList,
                                                   AccuracySample(prevEval, currEval, movePlayed.color))]
            type == determineMoveJudgement(movePlayed, prevBestMove, prevEval, currEval, movePlayed.color)
            d == [c EXCEPT !.analysisCounts = IF movePlayed.color = PlayerSide(c)
                                              THEN Bump(c.analysisCounts, type)
                                              ELSE c.analysisCounts,
                           !.moveJudgements = Append(c.moveJudgements, [index |-> i, type |-> type])]
            e == IF i > 0 THEN d ELSE b
            f == [e EXCEPT !.analysisIndex = i + 1]
        IN  IF i > 0 /\ ~Defined(b.game, i - 1) THEN b
            ELSE IF i > 0 /\ prevBestMove = UndefHint THEN c
            ELSE IF i = e.viewingIndex - 1 /\ NavigationThrows(e) THEN e
            ELSE triggerMoveAnalysis([f EXCEPT !.last = Did("reviewedMove", i)])

\* hintEngine.onmessage, the 'bestmove' part
hintEngineBestmove(s, bm) ==
    IF bm = NoneMove THEN (IF s.reviewingGame THEN hintEngineNone(s) ELSE s)
    ELSE IF s.reviewingGame THEN hintEngineReview(s, bm)
    ELSE IF ~s.gettingHint THEN s
    ELSE [s EXCEPT !.gettingHint = FALSE]

\* ------------------------------------------------------------ inputs
Colors == {"white", "black"}
\* the ratings offered on the slider: one below the cutoff, one at it
EloChoices == {100, EloCutoff}
\* the lines an engine sends during a search
CpLine(v, d) == [kind |-> "cp", val |-> v, depth |-> d]
MateLine(n, d) == [kind |-> "mate", val |-> n, depth |-> d]
OtherLine == [kind |-> "other", val |-> 0, depth |-> 0]
\* what the environment offers in a specification: the games the user starts
\* (any number, one, or MaxGames), the side chosen, the squares clicked, the
\* verdicts of the rules engine on a new position, the lines of the two engines
LiveInputs == [rematches |-> "any", colors |-> Colors, squares |-> Squares,
               verdicts |-> {"ok", "check", "mate", "draw"},
               lines |-> {CpLine(250, 1), OtherLine}]

\* the model's bounds on the length of a game and on the requests in flight
Within(s) ==
    /\ Len(s.game) <= MaxPlies
    /\ Len(s.fenHistory) <= MaxPlies + 2
    /\ Len(s.botQueue) <= MaxQueue
    /\ Len(s.hintQueue) <= MaxHintQueue
    /\ s.botTimers <= MaxTimers
Do(s) == Within(s) /\ Becomes(s) /\ UNCHANGED probe

\* ------------------------------------------------------------ actions
\* startBtn, rematchBtn, key 's'
StartNewGame(in) ==
    \E color \in in.colors :
        CASE gameActive \/ in.rematches = "any" -> Do(startNewGame(Cur, color))
          [] in.rematches = "none" -> ~started /\ Do(startNewGame(Cur, color))
          [] OTHER -> games < MaxGames /\ Do([startNewGame(Cur, color) EXCEPT !.games = games + 1])
\* the close button of the game over modal, key Escape while it is shown
ExitToMenu == gameOverModal /\ Do(exitToMenu(Cur))
\* undoBtn, key 'u'
UndoMove == Do(undoMove(Cur))
\* a click on a square of the board
SquareClick(in) ==
    \E square \in in.squares :
        \E v \in (IF ClickMoves(Cur, square) THEN in.verdicts ELSE {"ok"}) :
            Do(handleSquareClickInteractions(Cur, square, v))
\* a piece is dragged and dropped (onDragStart allowed the drag)
DragDrop(in) ==
    \E source \in {q \in in.squares : DragAllowed(Cur, q)}, target \in in.squares :
        \E v \in (IF DropMoves(Cur, source, target) THEN in.verdicts ELSE {"ok"}) :
            Do(onDrop(onDragStart(Cur, source), source, target, v))
\* the moves of a set that stay on the squares a specification plays on
Offered(moves, in) == {m \in moves : m = NoneMove \/ m.to \in in.squares}
\* a 250 ms timer of makeEngineMove fires
TimerFires == botTimers > 0 /\ Do(makeEngineMove([Cur EXCEPT !.botTimers = botTimers - 1]))
\* the bot engine sends a line of the search at the head of its queue
BotEngineInfoLine(in) ==
    /\ botQueue # <<>>
    /\ \E line \in in.lines : Do(botEngineInfo(Cur, line))
\* the bot engine ends the search at the head of its queue with 'bestmove'
BotEngineBestmoveLine(in) ==
    /\ botQueue # <<>>
    /\ \E bm \in Offered(EngineMoves(Head(botQueue).fen), in), lucky \in BOOLEAN :
         \E rnd \in (IF lucky THEN Offered(LegalMoves(game), in) \cup {bm} ELSE {bm}) :
            \E v \in (IF LegalMoves(game) # {} THEN in.verdicts ELSE {"ok"}) :
                Do(botEngineBestmove([Cur EXCEPT !.botQueue = Tail(botQueue)], bm, lucky, rnd, v))
\* hintBtn, key 'h'
GetHint == Do(getHint(Cur))
\* gameReviewBtn of the game over modal, key 'g' while it is shown
ReviewGame == gameOverModal /\ Do(reviewGame(Cur))
\* the hint engine sends a line of the search at the head of its queue
HintEngineInfoLine(in) ==
    /\ hintQueue # <<>>
    /\ \E line \in in.lines : Do(hintEngineInfo(Cur, line))
\* the hint engine ends the search at the head of its queue with 'bestmove'
HintEngineBestmoveLine(in) ==
    /\ hintQueue # <<>>
    /\ \E bm \in Offered(EngineMoves(Head(hintQueue).fen), in) :
         Do(hintEngineBestmove([Cur EXCEPT !.hintQueue = Tail(hintQueue),
                                           !.answered = Head(hintQueue)], bm))
\* resignBtn (enabled while a game is active), key 'r' while a game is active
ResignGame == gameActive /\ Do(resignGame(Cur))
\* yesBtn of the confirmation modal, key 'y' while it is shown
ConfirmResignation == yesNoModal /\ Do(confirmResignation(Cur))
\* noBtn, the close button, keys 'n' and Escape while the modal is shown
CancelResignation == yesNoModal /\ Do(cancelResignation(Cur))
\* backBtn / forwardBtn / firstBtn / lastBtn, keys ArrowLeft, ArrowRight, 'f', 'l'
NavigateBack == Do(navigateBack(Cur))
NavigateForward == Do(navigateForward(Cur))
NavigateFirst == Do(navigateFirst(Cur))
NavigateLast == Do(navigateLast(Cur))
\* the rating slider; it is disabled while a game is in progress
EloSliderChange == ~gameActive /\ \E elo \in EloChoices : Do(eloSliderChange(Cur, elo))
\* the rating slider moved to any rating of the table
EloSliderAnyRating == ~gameActive /\ \E elo \in Ratings : Do(eloSliderChange(Cur, elo))

\* ------------------------------------------------------------ live play
\* every handler of live play; the hint engine and the review stay idle (no
\* handler of live play reads a variable that only they write)
NextLive ==
    \/ StartNewGame(LiveInputs) \/ ExitToMenu \/ UndoMove
    \/ SquareClick(LiveInputs) \/ DragDrop(LiveInputs)
    \/ TimerFires \/ BotEngineInfoLine(LiveInputs) \/ BotEngineBestmoveLine(LiveInputs)
    \/ ResignGame \/ ConfirmResignation \/ CancelResignation
    \/ NavigateBack \/ NavigateForward \/ NavigateFirst \/ NavigateLast
SpecLive == Init /\ [][NextLive]_vars

\* ------------------------------------------------------------ review
\* The review of one game: the handlers of live play that make and end the
\* game, the hint engine and the review.  A score line of the bot engine
\* writes currentEval and the last entry of evalHistory only, which the review
\* overwrites; drags make the moves that clicks make.
ReviewInputs == [rematches |-> "none", colors |-> Colors, squares |-> {"w1", "b1", "x1"},
                 verdicts |-> {"ok", "check", "mate", "stale"},
                 lines |-> {CpLine(250, hintSearchDepth)}]
NextReview ==
    \/ StartNewGame(ReviewInputs) \/ ExitToMenu
    \/ SquareClick(ReviewInputs)
    \/ TimerFires \/ BotEngineBestmoveLine(ReviewInputs)
    \/ ResignGame \/ ConfirmResignation
    \/ GetHint \/ ReviewGame
    \/ HintEngineInfoLine(ReviewInputs) \/ HintEngineBestmoveLine(ReviewInputs)
    \/ NavigateLast
SpecReview == Init /\ [][NextReview]_vars

\* ------------------------------------------------------------ hint channel
\* The requests and responses of the hint engine over MaxGames games: new
\* games, hints, resignations, reviews and the engine's lines in any order.
\* The human moves the white piece and the bot answers with the black one.
ChannelInputs == [rematches |-> "some", colors |-> {"white"}, squares |-> {"w1", "x1"},
                  verdicts |-> {"ok"},
                  lines |-> {CpLine(250, hintSearchDepth)}]
NextChannel ==
    \/ StartNewGame(ChannelInputs)
    \/ SquareClick(ChannelInputs)
    \/ TimerFires \/ BotEngineBestmoveLine(ChannelInputs)
    \/ ResignGame \/ ConfirmResignation
    \/ GetHint \/ ReviewGame
    \/ HintEngineInfoLine(ChannelInputs) \/ HintEngineBestmoveLine(ChannelInputs)
SpecChannel == Init /\ [][NextChannel]_vars

\* ------------------------------------------------------------ score lines
\* The score lines of the bot engine in one game of either colour at either
\* rating: the lines of a search come at the depth 1 and at the requested depth
\* of the lowest rating and of the rating at the cutoff.
ScoreInputs == [rematches |-> "none", colors |-> Colors, squares |-> {"w1", "b1", "x1"},
                verdicts |-> {"ok"},
                lines |-> {CpLine(150, 1), CpLine(150, ProfileDepth(EloCutoff))}]
NextScores ==
    \/ StartNewGame(ScoreInputs) \/ EloSliderChange
    \/ SquareClick(ScoreInputs)
    \/ TimerFires \/ BotEngineInfoLine(ScoreInputs) \/ BotEngineBestmoveLine(ScoreInputs)
SpecScores == Init /\ [][NextScores]_vars

\* ------------------------------------------------------------ difficulty
\* One game at a rating chosen on the slider before it starts, with the bot
\* engine's moves and hints of the hint engine.
DifficultyInputs == [rematches |-> "none", colors |-> Colors, squares |-> {"w1", "b1", "x1", "x2"},
                     verdicts |-> {"ok"}, lines |-> {OtherLine}]
NextDifficulty ==
    \/ StartNewGame(DifficultyInputs) \/ EloSliderChange
    \/ SquareClick(DifficultyInputs)
    \/ TimerFires \/ BotEngineBestmoveLine(DifficultyInputs)
    \/ GetHint \/ HintEngineBestmoveLine(DifficultyInputs)
SpecDifficulty == Init /\ [][NextDifficulty]_vars

\* ------------------------------------------------------------ accuracy
\* The review of one game in which the human moves the white piece and the
\* bot the black one, with scores of either sign from the hint engine, so that
\* a mover gains as well as loses winning chance.
AccuracyInputs == [rematches |-> "none", colors |-> {"white"}, squares |-> {"w1", "x1"},
                   verdicts |-> {"ok"},
                   lines |-> {CpLine(250, hintSearchDepth), CpLine(0 - 250, hintSearchDepth)}]
NextAccuracy ==
    \/ StartNewGame(AccuracyInputs)
    \/ SquareClick(AccuracyInputs)
    \/ TimerFires \/ BotEngineBestmoveLine(AccuracyInputs)
    \/ ResignGame \/ ConfirmResignation
    \/ GetHint \/ ReviewGame
    \/ HintEngineInfoLine(AccuracyInputs) \/ HintEngineBestmoveLine(AccuracyInputs)
SpecAccuracy == Init /\ [][NextAccuracy]_vars

\* ------------------------------------------------------------ judgement calls
\* The judgement functions alone: one call with arguments drawn from the
\* scores around the thresholds (an undefined score included), a move that is
\* or is not the best move or has none, either mover; and one call of the
\* bucketing for losses around its bounds.
EvalSamples == {0 - 19999, 0 - 5000, 0 - 1000, 0 - 750, 0 - 500, 0 - 250, 0 - 100, 0 - 50, 0,
                50, 100, 250, 500, 750, 1000, 5000, 19999, UndefNum}
LostSamples == {0 - 50000, 0 - 1, 0, 1999, 2000, 2001, 4999, 5000, 5001, 9999, 10000, 10001,
                19999, 20000, 20001, 50000}
MoveSamples == {[from |-> "w1", to |-> "x1"], [from |-> "w1", to |-> "x2"], NullHint}
JudgeProbes ==
    {[kind |-> "judge", movePlayed |-> [from |-> "w1", to |-> "x1"], bestMove |-> bm,
      prev |-> p, cur |-> c, color |-> col, lost |-> 0, type |-> "-"] :
        bm \in MoveSamples, p \in EvalSamples, c \in EvalSamples, col \in {"w", "b"}}
BucketProbes ==
    {[kind |-> "bucket", movePlayed |-> NullHint, bestMove |-> NullHint,
      prev |-> 0, cur |-> 0, color |-> "w", lost |-> l, type |-> "-"] : l \in LostSamples}
InitJudge == InitProgram /\ probe \in JudgeProbes \cup BucketProbes
\* determineMoveJudgement is called with the arguments drawn
JudgeMove ==
    /\ probe.kind = "judge" /\ probe.type = "-"
    /\ probe' = [probe EXCEPT !.type = determineMoveJudgement(probe.movePlayed, probe.bestMove,
                                                               probe.prev, probe.cur, probe.color)]
    /\ UNCHANGED programVars
\* the bucketing is applied to the loss drawn
BucketLoss ==
    /\ probe.kind = "bucket" /\ probe.type = "-"
    /\ probe' = [probe EXCEPT !.type = JudgementBucket(probe.lost)]
    /\ UNCHANGED programVars
NextJudge == JudgeMove \/ BucketLoss
SpecJudge == InitJudge /\ [][NextJudge]_vars

\* ------------------------------------------------------------ engine lines
\* One game with hints and its review, in which each engine sends score
\* lines and lines that are neither score lines nor a bestmove ('readyok',
\* 'info depth 3 currmove e2e4', 'info string ...').
LineInputs == [rematches |-> "none", colors |-> {"white"}, squares |-> {"w1", "x1"},
               verdicts |-> {"ok"},
               lines |-> {CpLine(250, hintSearchDepth), OtherLine}]
NextLines ==
    \/ StartNewGame(LineInputs)
    \/ SquareClick(LineInputs)
    \/ TimerFires \/ BotEngineInfoLine(LineInputs) \/ BotEngineBestmoveLine(LineInputs)
    \/ ResignGame \/ ConfirmResignation
    \/ GetHint \/ ReviewGame
    \/ HintEngineInfoLine(LineInputs) \/ HintEngineBestmoveLine(LineInputs)
SpecLines == Init /\ [][NextLines]_vars

\* ------------------------------------------------------------ profiles
\* One game at any rating of the profile table, chosen on the slider before
\* the game starts; the bot engine searches to the depth of the profile.
ProfileInputs == [rematches |-> "none", colors |-> Colors, squares |-> {"w1", "b1", "x1"},
                  verdicts |-> {"ok"}, lines |-> {OtherLine}]
NextProfiles ==
    \/ EloSliderAnyRating \/ StartNewGame(ProfileInputs)
    \/ SquareClick(ProfileInputs)
    \/ TimerFires \/ BotEngineBestmoveLine(ProfileInputs)
SpecProfiles == Init /\ [][NextProfiles]_vars

\* ------------------------------------------------------------ numbers
\* Calls of the score conversions with arguments drawn from bounded sets: the
\* encoding of a 'score mate N' line for the mate distances an engine reports,
\* and calculateEvaluation for the scores of the evaluation range.
MateDistances == (0 - MaxMate)..MaxMate
MateProbes ==
    {[kind |-> "mate", movePlayed |-> NullHint, bestMove |-> NullHint,
      prev |-> n, cur |-> 0, color |-> "w", lost |-> 0, type |-> "-"] : n \in MateDistances}
\* the scores of the evaluation range: the centipawn scores that are multiples
\* of 50 up to 1500 either way, a large score and encoded mates
MaxCp == 1500
ScoreSamples ==
    {50 * k - MaxCp : k \in 0..((2 * MaxCp) \div 50)}
        \cup {0 - 5000, 5000, 0 - MateScore(3), MateScore(3), 0 - MateBase, MateBase}
ScoreProbes ==
    {[kind |-> "score", movePlayed |-> NullHint, bestMove |-> NullHint,
      prev |-> cp, cur |-> 0, color |-> "w", lost |-> 0, type |-> "-"] : cp \in ScoreSamples}
InitNumbers == InitProgram /\ probe \in MateProbes \cup ScoreProbes
\* calculateEvaluation is called with the score drawn
EvaluateScore ==
    /\ probe.kind = "score" /\ probe.type = "-"
    /\ probe' = [probe EXCEPT !.type = "done", !.cur = winPct(probe.prev)]
    /\ UNCHANGED programVars
\* the score of the line 'info depth 10 score mate N' is taken
EncodeMate ==
    /\ probe.kind = "mate" /\ probe.type = "-"
    /\ probe' = [probe EXCEPT !.type = "done",
                              !.cur = LineScore(MateLine(probe.prev, hintSearchDepth))]
    /\ UNCHANGED programVars
NextNumbers == EncodeMate \/ EvaluateScore
SpecNumbers == InitNumbers /\ [][NextNumbers]_vars

\* ===================================================== properties, live play
\* C8: once a game has been started the position history has one entry per
\* move made plus the initial position, so no snapshot is ever taken for a
\* move the rules engine rejected.
C8_SnapshotPerMove == started => Len(fenHistory) = Len(game) + 1

\* b loses exactly the two trailing entries of a
DropsTwo(a, b) == Len(a) >= 2 /\ b = SubSeq(a, 1, Len(a) - 2)
UndoKeeps == game' = game /\ fenHistory' = fenHistory /\ evalHistory' = evalHistory
UndoDropsTwo ==
    /\ DropsTwo(game, game') /\ DropsTwo(fenHistory, fenHistory')
    /\ DropsTwo(evalHistory, evalHistory')

\* C9: every undoMove step either leaves the move list, fenHistory and
\* evalHistory as they are, or removes exactly the two trailing entries of
\* all three in that one step.
C9_UndoAtomic == [][UndoMove => (UndoKeeps \/ UndoDropsTwo)]_vars
\* an undo has just removed entries
C9_Undone == last.op = "undo" /\ Len(game) = 0 /\ Len(fenHistory) = 1 /\ Len(evalHistory) = 1

\* the guards of undoMove() pass
UndoAccepted == gameActive /\ Len(game) >= 2 /\ Turn(game) = PlayerSide(Cur)

\* the position history and the viewing index after undoMove() is called now
UndoLeavesTwoFewer ==
    LET u == undoMove(Cur)
    IN  /\ Len(u.fenHistory) = Len(fenHistory) - 2
        /\ u.viewingIndex = Len(u.fenHistory) - 1

\* C10 as stated: undoMove on a position history of length L >= 3 leaves
\* length L - 2 and the viewing index on the new last entry.
C10_UndoAnyTime == Len(fenHistory) >= 3 => UndoLeavesTwoFewer
\* C10, amended: undoMove that passes its guards (the game is active, two
\* moves have been made, it is the player's turn) finds a history of length
\* L >= 3 and leaves length L - 2 and the viewing index on the new last entry.
C10_UndoAccepted == UndoAccepted => (Len(fenHistory) >= 3 /\ UndoLeavesTwoFewer)
\* an undo has just run on a history of three or more, the view is on the last entry
C10_UndoneView == last.op = "undo" /\ Len(fenHistory) >= 1 /\ viewingIndex = Len(fenHistory) - 1

\* undoMove() called now leaves the game, both histories and the view alone
UndoChangesNothing ==
    LET u == undoMove(Cur)
    IN  /\ u.game = game /\ u.fenHistory = fenHistory
        /\ u.evalHistory = evalHistory /\ u.viewingIndex = viewingIndex

\* C11: from the first startNewGame on, fenHistory and evalHistory always keep
\* at least one entry (the one of ply 0), and undoMove called while fewer than
\* two moves have been made changes neither of them, nor viewingIndex, nor
\* the game.
C11_PlyZeroKept ==
    started => /\ Len(fenHistory) >= 1 /\ Len(evalHistory) >= 1
               /\ Len(game) < 2 => UndoChangesNothing
\* one move made in a game in progress, the player to move: only the count
\* of moves keeps undoMove from popping
C11_UndoTooEarly ==
    /\ started /\ gameActive /\ Len(game) = 1 /\ Turn(game) = PlayerSide(Cur)
    /\ Len(fenHistory) = 2 /\ Len(evalHistory) = 2

\* C12: the evaluation stored for ply 0 is 0 in every state.
C12_PlyZeroBalanced == Len(evalHistory) >= 1 => evalHistory[1] = 0

C24_OneMovePerBestmove ==
    botQueue # <<>> =>
        \A bm \in Offered(EngineMoves(Head(botQueue).fen), LiveInputs), lucky \in BOOLEAN :
            \A rnd \in (IF lucky /\ LegalMoves(game) # {} THEN LegalMoves(game) ELSE {bm}) :
                LET u == botEngineBestmove([Cur EXCEPT !.botQueue = Tail(botQueue)], bm, lucky, rnd, "ok")
                    substituted == /\ currentElo < EloCutoff /\ randomizationFactor > 0
                                   /\ lucky /\ LegalMoves(game) # {}
                    m == IF substituted THEN rnd ELSE bm
                IN  /\ Len(u.game) = Len(game) + 1
                    /\ u.game[Len(u.game)].from = m.from /\ u.game[Len(u.game)].to = m.to

\* ================================================= properties, difficulty
\* C25: a rating of the profile table has a positive randomization exactly
\* when it is below the cutoff; at a rating at or above the cutoff the bot
\* handler plays the move the engine reported (or none when the rules engine
\* rejects it) whatever the random draw; the hint engine's handler never
\* changes the game.
C25_WeakenerBelowCutoff ==
    /\ \A r \in Ratings : (ProfileRandom(r) > 0) <=> (r < EloCutoff)
    /\ (botQueue # <<>> /\ currentElo >= EloCutoff) =>
          \A bm \in EngineMoves(Head(botQueue).fen), rnd \in LegalMoves(game) :
              LET u == botEngineBestmove([Cur EXCEPT !.botQueue = Tail(botQueue)], bm, TRUE, rnd, "ok")
              IN  u.game = IF Accepts(game, bm.from, bm.to)
                           THEN Played(game, bm.from, bm.to, "ok") ELSE game
    /\ hintQueue # <<>> =>
          \A bm \in EngineMoves(Head(hintQueue).fen) :
              hintEngineBestmove([Cur EXCEPT !.hintQueue = Tail(hintQueue),
                                             !.answered = Head(hintQueue)], bm).game = game
\* a bestmove of the bot engine is due at a rating at or above the cutoff
\* while a legal move other than a move the engine can report exists
C25_StrongBotToMove ==
    /\ botQueue # <<>> /\ currentElo >= EloCutoff
    /\ \E bm \in EngineMoves(Head(botQueue).fen), rnd \in LegalMoves(game) :
          Accepts(game, bm.from, bm.to) /\ (rnd.from # bm.from \/ rnd.to # bm.to)

\* ================================================= properties, reset
\* the histories of a game that has not begun: one snapshot, the start
\* position, one evaluation, zero, and the view on ply 0
FreshHistories(u) ==
    /\ u.game = <<>>
    /\ u.fenHistory = <<Fen(<<>>)>> /\ u.viewingIndex = 0
    /\ u.evalHistory = <<0>> /\ u.currentEval = 0
\* C26: startNewGame(), when it is accepted, and exitToMenu() leave the
\* histories of a game that has not begun, whatever the game before left.
C26_ResetHistories ==
    /\ ~gameActive => \A color \in Colors : FreshHistories(startNewGame(Cur, color))
    /\ gameOverModal => FreshHistories(exitToMenu(Cur))
\* a finished game with several snapshots, a view away from ply 0 and a
\* nonzero evaluation, from which both handlers can be called
C26_AfterAGame ==
    /\ ~gameActive /\ gameOverModal
    /\ Len(fenHistory) > 1 /\ viewingIndex > 0
    /\ Len(evalHistory) > 1 /\ currentEval # 0

\* ================================================= properties, mate encoding
\* the line 'score mate N' drawn has been encoded
MateEncoded == probe.kind = "mate" /\ probe.type = "done"
\* C27: 'score mate N' is encoded as 20000 - N for N > 0 (19997 for mate 3)
\* and as -20000 - N for N < 0; the magnitude of the encoding is above the
\* thresholds 5000 and 15000, and a longer mate of the range has a strictly
\* smaller magnitude.
C27_MateEncoding ==
    (MateEncoded /\ probe.prev # 0) =>
        /\ probe.prev > 0 => probe.cur = 20000 - probe.prev
        /\ probe.prev < 0 => probe.cur = (0 - 20000) - probe.prev
        /\ probe.prev = 3 => probe.cur = 19997
        /\ Abs(probe.cur) > mateThreshold /\ Abs(probe.cur) > terminalMateThreshold
        /\ \A m \in MateDistances \ {0} :
              Abs(m) > Abs(probe.prev) =>
                  Abs(LineScore(MateLine(m, hintSearchDepth))) < Abs(probe.cur)
\* mate in 3 and mated in 3 have been encoded
C27_MateInThree == MateEncoded /\ probe.prev \in {3, 0 - 3} /\ Abs(probe.cur) = 19997

\* ================================================= properties, engine lines
\* the variables an engine line can write, and the position
LineFrame(s) ==
    <<s.currentEval, s.evalHistory, s.tempBestEval, s.fenHistory, s.hintHistory,
      s.analysisIndex, s.game>>
C29_ProfilesMonotonic ==
    LET profile == botProfiles(currentElo)
    IN  /\ botSearchDepth = profile.depth /\ randomizationFactor = profile.random
        /\ profile.skill \in 0..20 /\ profile.random \in 0..100
        /\ \A r \in Ratings :
              r > currentElo => /\ botProfiles(r).skill >= profile.skill
                                /\ botProfiles(r).depth >= profile.depth
\* the bot engine searches at the rating 900, one step of depth above 800
C29_SearchAt900 ==
    /\ currentElo = 900 /\ botQueue # <<>>
    /\ Head(botQueue).depth = 3 /\ botProfiles(800).depth = 2

\* ================================================= properties, win percentage
FFifty == [m |-> 50000, e |-> 0 - 3]
FHundred == [m |-> 10000, e |-> 0 - 2]
\* calculateEvaluation has returned for the score drawn
ScoreEvaluated == probe.kind = "score" /\ probe.type = "done"
\* no higher score of the range has a lower win percentage, and score 0 has 50
MonotonicFromFifty ==
    /\ \A cp \in ScoreSamples : cp > probe.prev => FLeq(probe.cur, winPct(cp))
    /\ probe.prev = 0 => probe.cur = FFifty
\* winPct(cp) + winPct(-cp) as the program would compute it
MirroredSum == FAdd(probe.cur, winPct(0 - probe.prev))
GameFrame(s) == <<s.game, s.fenHistory, s.evalHistory>>
\* C31: after a game has ended and before the next one is started, no line of
\* the bot engine and no human input applies a move or appends to fenHistory
\* or evalHistory; a search that was in flight when the game ended is answered
\* without a move being played.
C31_NoMoveAfterEnd ==
    (started /\ ~gameActive) =>
        /\ botQueue # <<>> =>
              \A bm \in Offered(EngineMoves(Head(botQueue).fen), LiveInputs), lucky \in BOOLEAN :
                  \A rnd \in (IF lucky THEN LegalMoves(game) \cup {bm} ELSE {bm}) :
                      GameFrame(botEngineBestmove([Cur EXCEPT !.botQueue = Tail(botQueue)],
                                                  bm, lucky, rnd, "ok")) = GameFrame(Cur)
        /\ \A square \in Squares :
              GameFrame(handleSquareClickInteractions(Cur, square, "ok")) = GameFrame(Cur)
        /\ \A source \in Squares : ~DragAllowed(Cur, source)

\* what the previous game left behind does nothing in state u: a timer that
\* is still scheduled posts no request when it fires, and no line that ends or
\* reports the search in flight changes the position or the histories
LeftoversDropped(u) ==
    /\ u.botTimers > 0 =>
          makeEngineMove([u EXCEPT !.botTimers = @ - 1]).botQueue = u.botQueue
    /\ u.botQueue # <<>> =>
          /\ \A line \in LiveInputs.lines : GameFrame(botEngineInfo(u, line)) = GameFrame(u)
          /\ \A bm \in Offered(EngineMoves(Head(u.botQueue).fen), LiveInputs), lucky \in BOOLEAN :
                \A rnd \in (IF lucky THEN LegalMoves(u.game) \cup {bm} ELSE {bm}) :
                    GameFrame(botEngineBestmove([u EXCEPT !.botQueue = Tail(u.botQueue)],
                                                bm, lucky, rnd, "ok")) = GameFrame(u)
\* C32: after an accepted startNewGame (as White, which schedules no timer of
\* its own) and after exitToMenu, a timer scheduled in the previous game
\* posts no request and a line of a search of the previous game changes
\* neither the position nor fenHistory nor evalHistory.
C32_PreviousGameCleared ==
    /\ ~gameActive => LeftoversDropped(startNewGame(Cur, "white"))
    /\ gameOverModal => LeftoversDropped(exitToMenu(Cur))

\* ================================================= properties, human input
\* the engine's reply is pending: a timer is scheduled or a search in flight
ReplyPending == botTimers > 0 \/ botQueue # <<>>
\* state u follows the current state by a human input that is allowed: it
\* changes the position only in an active game, on the player's turn and by a
\* piece of the player's colour, and it selects and moves nothing while the
\* engine's reply is pending
AllowedInput(u) ==
    /\ u.game # game =>
          /\ gameActive /\ Turn(game) = PlayerSide(Cur)
          /\ Len(u.game) = Len(game) + 1 /\ u.game[Len(u.game)].color = PlayerSide(Cur)
    /\ ReplyPending => (u.game = game /\ u.selectedSquare \in {"null", selectedSquare})
\* C33: every click on a square and every drag that onDragStart lets begin,
\* with any drop, is an allowed input.
C33_HumanMovesOwnPiece ==
    /\ \A square \in Squares : AllowedInput(handleSquareClickInteractions(Cur, square, "ok"))
    /\ \A source \in {q \in Squares : DragAllowed(Cur, q)}, target \in Squares :
          AllowedInput(onDrop(onDragStart(Cur, source), source, target, "ok"))

\* ================================================= properties, alternation
\* every move the bestmove handler can apply in the current state is a move
\* of the colour opposite to the player's
BotMovesOwnColour ==
    botQueue # <<>> =>
        \A bm \in Offered(EngineMoves(Head(botQueue).fen), LiveInputs), lucky \in BOOLEAN :
            \A rnd \in (IF lucky THEN LegalMoves(game) \cup {bm} ELSE {bm}) :
                LET u == botEngineBestmove([Cur EXCEPT !.botQueue = Tail(botQueue)], bm, lucky, rnd, "ok")
                IN  u.game # game => u.game[Len(u.game)].color # PlayerSide(Cur)
\* the first move of a game is the engine's exactly when the player chose
\* black: no click makes it then
HumanFirstOnlyAsWhite ==
    (gameActive /\ game = <<>> /\ playerColor = "black") =>
        \A square \in Squares : handleSquareClickInteractions(Cur, square, "ok").game = game
\* C34: the moves of a game alternate between the human and the engine: the
\* bestmove handler applies moves of the colour opposite to playerColor only
\* (so it makes the first move only when the player chose black), and the
\* human does not make the first move when the player chose black.
C34_Alternation == BotMovesOwnColour /\ HumanFirstOnlyAsWhite

\* ================================================= properties, viewed position
\* C35: while a position before the latest is displayed, no click changes the
\* position or the histories and no drag begins.
C35_MoveAtLatestOnly ==
    viewingIndex < Len(fenHistory) - 1 =>
        /\ \A square \in Squares :
              GameFrame(handleSquareClickInteractions(Cur, square, "ok")) = GameFrame(Cur)
        /\ \A source \in Squares : ~DragAllowed(Cur, source)

\* ================================================= properties, undo and engine
\* C36: an undo that removes entries finds no request of the bot engine
\* scheduled or in flight, and after an undo no search is in flight for a
\* position that the undo removed.
C36_UndoWithoutPendingReply ==
    /\ undoMove(Cur).game # game => ~ReplyPending
    /\ last.op = "undo" => \A k \in 1..Len(botQueue) : botQueue[k].fen.ply <= Len(game)

\* ================================================= properties, viewing index
\* C37: the viewing index is an index of the position history, or 0 while
\* the history is empty.
C37_ViewInRange ==
    /\ viewingIndex >= 0
    /\ viewingIndex <= (IF Len(fenHistory) > 0 THEN Len(fenHistory) - 1 ELSE 0)

\* ================================================= properties, judgement label
\* C38: the judgement label that navigationUpdate shows for the move into the
\* viewed ply is the judgement recorded in moveJudgements for that ply.
C38_LabelIsDot ==
    ShowsJudgement(Cur) =>
        \A k \in 1..Len(moveJudgements) :
            moveJudgements[k].index = viewingIndex => moveJudgements[k].type = judgementLabel(Cur)

\* ================================================= properties, final score
\* the score of a finished position: 20000 when Black is checkmated, -20000
\* when White is, 0 for a draw
FinalScore(g) == IF in_checkmate(g) THEN (IF Turn(g) = "b" THEN 20000 ELSE 0 - 20000) ELSE 0
\* C39: while the game over modal offers the review of a game that ended by
\* checkmate or in a draw, currentEval and the evaluation stored for the
\* final ply are the score of the finished position.
C39_FinalScoreStored ==
    (gameOverModal /\ (in_checkmate(game) \/ in_draw(game))) =>
        /\ currentEval = FinalScore(game)
        /\ NumAt(evalHistory, Len(game)) = FinalScore(game)

\* ================================================= properties, score lines
\* C13: a score line of the bot engine whose depth is below the depth that
\* was requested for the running search leaves evalHistory as it is.
C13_DepthGate ==
    botQueue # <<>> =>
        \A line \in ScoreInputs.lines :
            (IsScoreLine(line) /\ line.depth < Head(botQueue).depth)
                => botEngineInfo(Cur, line).evalHistory = evalHistory

\* C14: the evaluation a score line of the bot engine writes to evalHistory
\* is the line's score when White is to move in the position that was sent
\* for the running search, and its negation when Black is.
C14_WhiteRelative ==
    botQueue # <<>> =>
        \A line \in ScoreInputs.lines :
            IsScoreLine(line) =>
                LET u == botEngineInfo(Cur, line)
                    raw == LineScore(line)
                    whiteRelative == IF FenTurn(Head(botQueue).fen) = "b" THEN 0 - raw ELSE raw
                IN  u.evalHistory # evalHistory
                        => u.evalHistory[Len(u.evalHistory)] = whiteRelative

\* ================================================= properties, hint channel
\* the requests of the running review that are still outstanding
FreshReview(r) == r.kind = "review" /\ ~r.stale

\* C1: the hint channel never has more than one request outstanding, and an
\* outstanding request of the running review is the one for the ply the
\* review is at (the request for ply i+1 follows the processing of the
\* response to the request for ply i).
C1_OneOutstanding ==
    /\ Len(hintQueue) <= 1
    /\ reviewingGame =>
          \A k \in 1..Len(hintQueue) : FreshReview(hintQueue[k]) => hintQueue[k].ply = analysisIndex

\* C2: the handler that receives the response to a request of a review that
\* startNewGame cancelled does nothing to the review's data (it does not even
\* begin to store: hintHistory, evalHistory, analysisIndex, moveJudgements,
\* accuracyList and analysisCounts are as they were).
C2_CancelledDiscarded == answered.cancelled => last = NoOp

\* C3: when the review has stored a best move and a score for ply i, the
\* response it took them from answers the request that the running review
\* sent for fenHistory[i].
C3_Attributed ==
    last.op \in {"stored", "reviewedMove"} =>
        (FreshReview(answered) /\ answered.ply = last.ply)

\* C7: while a game is in progress fenHistory and evalHistory have the same
\* length; the review's handlers write hintHistory only while reviewingGame is
\* set, and during a review every index of hintHistory is an index of fenHistory.
C7_ParallelArrays ==
    /\ gameActive => Len(fenHistory) = Len(evalHistory)
    /\ last.op \in {"storedNone", "reviewedNone", "storedHint", "stored", "reviewedMove"}
          => reviewingGame
    /\ reviewingGame => Len(hintHistory) <= Len(fenHistory)

\* ====================================================== properties, review
\* C4: the running review of a game that had P plies when it began has sent
\* its requests for the plies 0, 1, 2, ... in this order, each for an entry
\* that fenHistory has, none for a ply beyond P, and P + 1 of them once the
\* summary is reached.
C4_RequestsPerPly ==
    reviewingGame =>
        /\ \A k \in 1..Len(reviewLog) :
              /\ reviewLog[k].ply = k - 1 /\ reviewLog[k].known
              /\ reviewLog[k].ply <= reviewLog[1].plies
        /\ analysisResult => Len(reviewLog) = reviewLog[1].plies + 1

\* C5: a review that has not reached its summary is waiting for a response
\* (only a response advances it), and one that has reached it has no request
\* outstanding that it sent after the summary.
C5_ReviewAdvances ==
    reviewingGame =>
        /\ ~analysisResult => \E k \in 1..Len(hintQueue) : FreshReview(hintQueue[k])
        /\ analysisResult => \A k \in 1..Len(hintQueue) :
                                 FreshReview(hintQueue[k]) => hintQueue[k].ply <= Len(game)

\* C6: when the review's handler has received a move for ply i of the game, a
\* position with replies, it has stored the move at hintHistory[i] and a
\* score at evalHistory[i], for i > 0 the last judgement is the one of ply i
\* for the move played and the best move of ply i-1, one accuracy sample was
\* taken for each judgement, and analysisIndex is i + 1.
C6_ReviewStep ==
    (/\ last.op \in {"storedHint", "stored", "reviewedMove"}
     /\ last.ply <= Len(game) /\ Defined(fenHistory, last.ply)
     /\ ~NoReplies(fenHistory[last.ply + 1]))
    => LET i == last.ply
       IN  /\ last.op = "reviewedMove" /\ analysisIndex = i + 1
           /\ Defined(hintHistory, i) /\ hintHistory[i + 1] \notin {NullHint, UndefHint}
           /\ Defined(evalHistory, i) /\ evalHistory[i + 1] # UndefNum
           /\ i > 0 =>
                 /\ moveJudgements # <<>>
                 /\ moveJudgements[Len(moveJudgements)] =
                        [index |-> i,
                         type |-> determineMoveJudgement(game[i], HintAt(hintHistory, i - 1),
                                                         NumAt(evalHistory, i - 1),
                                                         NumAt(evalHistory, i), game[i].color)]
                 /\ Len(accuracyList) = Len(moveJudgements)

\* C16: when the review's handler has received the terminal marker in
\* response to the running review's request for ply i, it has recorded the
\* hint of ply i as absent and exactly one judgement for ply i, for the last
\* move played: best when the stored evaluation of ply i exceeds the mate
\* threshold of the terminal case in magnitude, good otherwise; and
\* analysisIndex is i + 1.
C16_TerminalStep ==
    (last.op \in {"storedNone", "reviewedNone"} /\ FreshReview(answered)) =>
        LET i == answered.ply
            n == Len(moveJudgements)
        IN  /\ last = Did("reviewedNone", i) /\ analysisIndex = i + 1
            /\ i = Len(game) /\ hintHistory[i + 1] = NullHint
            /\ n >= 1 /\ Defined(evalHistory, i)
            /\ moveJudgements[n] =
                   [index |-> i,
                    type |-> IF Abs(evalHistory[i + 1]) > terminalMateThreshold THEN "best" ELSE "good"]
            /\ Cardinality({k \in 1..n : moveJudgements[k].index = i}) = 1

\* C17: when the review has judged the transition to ply i and the move
\* played has the source and the target of the best move stored for ply
\* i - 1, the judgement recorded is best and the accuracy sample recorded is
\* 100, whatever the two evaluations are.
C17_BestMovePlayed ==
    (/\ last.op = "reviewedMove" /\ last.ply > 0
     /\ Defined(game, last.ply - 1) /\ Defined(hintHistory, last.ply - 1)
     /\ game[last.ply].from = hintHistory[last.ply].from
     /\ game[last.ply].to = hintHistory[last.ply].to)
    => /\ moveJudgements # <<>> /\ accuracyList # <<>>
       /\ moveJudgements[Len(moveJudgements)] = [index |-> last.ply, type |-> "best"]
       /\ accuracyList[Len(accuracyList)] = 100000

\* =================================================== properties, judgement
\* the mover's winning chance for a score, and the chance the mover gave up
MoverChance(eval, color) ==
    IF color = "b" THEN 100000 - calculateEvaluation(eval) ELSE calculateEvaluation(eval)
LostAdvantage(prev, cur, color) == MoverChance(prev, color) - MoverChance(cur, color)
\* the score says the mover is mated against, or lost
MatedAgainst(eval, color) ==
    IF color = "w" THEN eval <= 0 - mateThreshold ELSE eval >= mateThreshold
LostFor(eval, color) ==
    IF color = "w" THEN eval < 0 - lostThreshold ELSE eval > lostThreshold
\* the buckets of the loss: at most 2, 5, 10, 20 percent, more
BucketOf(l) ==
    IF l <= 2000 THEN "excellent" ELSE IF l <= 5000 THEN "good"
    ELSE IF l <= 10000 THEN "inaccuracy" ELSE IF l <= 20000 THEN "mistake" ELSE "blunder"
\* a call of determineMoveJudgement has returned, for a move that is not the
\* best move, with two defined scores
JudgedOther ==
    /\ probe.kind = "judge" /\ probe.type # "-"
    /\ probe.bestMove # NullHint /\ probe.bestMove # probe.movePlayed
    /\ probe.prev # UndefNum /\ probe.cur # UndefNum
\* the mover was neither mated against nor lost and is now mated against
MateTransition ==
    /\ ~MatedAgainst(probe.prev, probe.color) /\ ~LostFor(probe.prev, probe.color)
    /\ MatedAgainst(probe.cur, probe.color)

\* C18: for a move that is not the best move, determineMoveJudgement returns
\* blunder when the mover was neither mated against nor lost before the move
\* and is mated against after it, whatever chance was given up; when the
\* mover was mated against or lost before the move the buckets decide.
C18_MateOverride ==
    JudgedOther =>
        /\ MateTransition => probe.type = "blunder"
        /\ (MatedAgainst(probe.prev, probe.color) \/ LostFor(probe.prev, probe.color))
              => probe.type = BucketOf(LostAdvantage(probe.prev, probe.cur, probe.color))
\* a move into a mate from a position that gave up less than 2 percent
C18_SuddenMate ==
    /\ JudgedOther /\ MateTransition /\ probe.type = "blunder"
    /\ LostAdvantage(probe.prev, probe.cur, probe.color) <= 2000

\* C19: for a move that is not the best move and without the mate override,
\* the judgement is the bucket of the chance the mover gave up: at most 2
\* excellent, at most 5 good, at most 10 inaccuracy, at most 20 mistake, more
\* blunder; a bound belongs to the better bucket and a negative loss is
\* excellent.
C19_Buckets ==
    /\ (probe.kind = "bucket" /\ probe.type # "-") => probe.type = BucketOf(probe.lost)
    /\ (JudgedOther /\ ~MateTransition)
          => probe.type = BucketOf(LostAdvantage(probe.prev, probe.cur, probe.color))
\* the bucketing has been applied to a loss of exactly 5 percent
C19_OnTheBound == probe.kind = "bucket" /\ probe.lost = 5000 /\ probe.type = "good"

\* ==================================================== properties, accuracy
\* 100 - (bestWinPct - playedWinPct) of the transition to ply i, from the
\* scores stored for the plies i - 1 and i and for the mover of the move
RawAccuracy(i) ==
    100000 - LostAdvantage(evalHistory[i], evalHistory[i + 1], game[i].color)
\* the review has just recorded the sample of the transition to ply i > 0
SampleTaken ==
    /\ last.op = "reviewedMove" /\ last.ply > 0 /\ accuracyList # <<>>
    /\ Defined(game, last.ply - 1) /\ Defined(evalHistory, last.ply)

\* C20: every sample in accuracyList is a number from 0 to 100, and the
\* sample just recorded is 100 when 100 - (bestWinPct - playedWinPct) is
\* above 100 and that value otherwise.
C20_SampleRange ==
    /\ \A k \in 1..Len(accuracyList) : accuracyList[k] >= 0 /\ accuracyList[k] <= 100000
    /\ SampleTaken =>
          accuracyList[Len(accuracyList)] =
              (IF RawAccuracy(last.ply) > 100000 THEN 100000 ELSE RawAccuracy(last.ply))
\* the mover gained winning chance and the sample recorded is 100
C20_Capped ==
    SampleTaken /\ RawAccuracy(last.ply) > 100000 /\ accuracyList[Len(accuracyList)] = 100000

\* ===================================================== properties, summary
\* the plies of the game that the reviewed player made
PlayerPlies == {j \in 1..Len(game) : game[j].color = PlayerSide(Cur)}

\* C21: when a review has reached its summary, the accuracy shown is the
\* rounded mean of the samples of exactly the plies the reviewed player made:
\* every ply of the player is counted, no ply of the opponent is.
C21_PlayerAverage ==
    (reviewingGame /\ analysisResult) =>
        /\ CountedPlies(Cur) = PlayerPlies
        /\ averageAccuracy(Cur) >= 0 /\ averageAccuracy(Cur) <= 100

\* the categories of analysisCounts, the plies of the player judged c, and a
\* review whose handler has just reached the summary
Categories == {"best", "excellent", "good", "inaccuracy", "mistake", "blunder"}
PlayerPliesJudged(c) ==
    {j \in PlayerPlies : \E k \in 1..Len(moveJudgements) : moveJudgements[k] = [index |-> j, type |-> c]}
SummaryJustReached ==
    reviewingGame /\ analysisResult /\ last.op \in {"reviewedMove", "reviewedNone"}

\* C22: when a review reaches its summary, analysisCounts[c] is the number of
\* plies of the reviewed player judged c, for every category c, and every ply
\* of the player is in exactly one count.
C22_CountsOfPlayer ==
    SummaryJustReached =>
        /\ \A c \in Categories : analysisCounts[c] = Cardinality(PlayerPliesJudged(c))
        /\ \A j \in PlayerPlies : Cardinality({c \in Categories : j \in PlayerPliesJudged(c)}) = 1

\* C23: during a review every judgement recorded has an index from 1 to the
\* number of plies of the game, no index is recorded twice, and there are no
\* more accuracy samples than judged transitions (none for ply 0).
C23_TransitionsOnly ==
    reviewingGame =>
        /\ \A k \in 1..Len(moveJudgements) :
              /\ moveJudgements[k].index >= 1 /\ moveJudgements[k].index <= Len(game)
              /\ \A j \in 1..Len(moveJudgements) :
                    moveJudgements[j].index = moveJudgements[k].index => j = k
        /\ Len(accuracyList) <= Len(moveJudgements)

=============================================================================
